---- MODULE Spec2Model ----
(***************************************************************************)
(* Video Uploader (src/main.py): one run of main() as a state machine.     *)
(* main() discovers video files, upload_videos() validates them, builds    *)
(* the transfer spec, and (unless --dry-run) connects, checks the          *)
(* environment, calls StartTransfer and consumes the MonitorTransfers      *)
(* stream sample by sample.                                                *)
(*                                                                         *)
(* Python values: a str is a sequence of one-character strings; None is    *)
(* the one-element tuple <<"None">>, which no str equals.                  *)
(***************************************************************************)
EXTENDS Integers, Sequences, FiniteSets, TLC

---------------------------------------------------------------------------
(* Bounds of the model *)

\* directory entries below the scanned root
MaxFiles == 2
\* samples the daemon emits on one MonitorTransfers stream
MaxSamples == 2
\* clock ticks per second: time.time() is a float, the model's clock is
\* counted in 1/TicksPerSecond s
TicksPerSecond == 2
\* the clock is observed up to MaxSlack ticks past (timeout_seconds + 1) s
MaxSlack == 0

---------------------------------------------------------------------------
(* Python values *)

None == <<"None">>

\* truthiness of an Optional[str]: None and "" are falsy
Truthy(v) == v # None /\ v # <<>>

Contains(seq, x) == \E i \in DOMAIN seq : seq[i] = x

\* str.startswith
StartsWith(s, prefix) ==
    /\ Len(s) >= Len(prefix)
    /\ SubSeq(s, 1, Len(prefix)) = prefix

\* str.endswith
EndsWith(s, suffix) ==
    /\ Len(s) >= Len(suffix)
    /\ SubSeq(s, Len(s) - Len(suffix) + 1, Len(s)) = suffix

Whitespace == {" "}

RECURSIVE LStrip(_)
LStrip(s) == IF s # <<>> /\ Head(s) \in Whitespace THEN LStrip(Tail(s)) ELSE s

RECURSIVE RStrip(_)
RStrip(s) ==
    IF s # <<>> /\ s[Len(s)] \in Whitespace
    THEN RStrip(SubSeq(s, 1, Len(s) - 1))
    ELSE s

\* str.strip()
Strip(s) == RStrip(LStrip(s))

Str_https == <<"h", "t", "t", "p", "s", ":", "/", "/">>
Str_http == <<"h", "t", "t", "p", ":", "/", "/">>
Slash == <<"/">>

---------------------------------------------------------------------------
(* The environment of one run *)

\* values an identity variable of .env may have: unset, empty, set
FieldValues == {None, <<>>, <<"k">>}
\* IBMCLOUD_COS_ENDPOINT
EndpointValues == {None, <<>>, <<"s", "3">>}
\* COS_DESTINATION (os.environ.get with a default: never None)
DestinationValues == {<<"u">>}
\* create_dir of the uploader: main is run without --no-folder-marker
CreateDirValues == {TRUE}
\* ASPERA_REMOTE_HOST default
DefaultRemoteHost == <<"a", "t", "s">>

\* a regular file and a directory, as a listing finds them
File(sfx, r) == [suffix |-> sfx, exists |-> TRUE, is_file |-> TRUE, readable |-> r]
Dir(sfx) == [suffix |-> sfx, exists |-> TRUE, is_file |-> FALSE, readable |-> TRUE]

\* the entries a listing may return: a readable and an unreadable video
\* file, a directory named like a video, a video with an upper case and
\* one with a mixed case suffix, and a file that is no video
ListedEntry ==
    { File(".mp4", TRUE), File(".mp4", FALSE), Dir(".mp4"),
      File(".MOV", TRUE), File(".Mp4", TRUE), File(".txt", TRUE) }

RECURSIVE SeqsUpTo(_, _)
SeqsUpTo(S, n) ==
    IF n = 0 THEN {<<>>}
    ELSE LET shorter == SeqsUpTo(S, n - 1)
         IN  shorter \cup {Append(s, x) : s \in {t \in shorter : Len(t) = n - 1}, x \in S}

\* the positional argument of main: a path that does not exist, a regular
\* file, or a directory with up to MaxFiles entries below it.  A discovered
\* path is the index of its entry.
FileSystems ==
    {[kind |-> "missing", entries |-> <<>>]}
    \cup {[kind |-> "file", entries |-> <<e>>] : e \in {x \in ListedEntry : x.is_file}}
    \cup {[kind |-> "dir", entries |-> es] : es \in SeqsUpTo(ListedEntry, MaxFiles)}

---------------------------------------------------------------------------
(* VideoUploader: pure parts *)

video_types == {".mp4", ".mov", ".MP4", ".MOV"}

\* directory.rglob("*") filtered: the indices, in listing order from i on, of
\* the entries with a video suffix that are regular files
RECURSIVE Matching(_, _)
Matching(entries, i) ==
    IF i > Len(entries) THEN <<>>
    ELSE IF entries[i].suffix \in video_types /\ entries[i].is_file
         THEN <<i>> \o Matching(entries, i + 1)
         ELSE Matching(entries, i + 1)

\* find_video_files(path_like): the discovered paths
find_video_files(f) ==
    IF f.kind = "file"
    THEN IF f.entries[1].suffix \in video_types THEN <<1>> ELSE <<>>
    ELSE Matching(f.entries, 1)

\* the reason the validation loop of upload_videos rejects path p, or "ok"
Verdict(e) ==
    IF ~e.exists THEN "Source not found"
    ELSE IF ~e.is_file THEN "Not a file"
    ELSE IF ~e.readable THEN "Not readable"
    ELSE "ok"

\* ValidFiles that gives up the rest of the list at the first rejection
RECURSIVE ValidFiles_AbortOnReject(_, _)
ValidFiles_AbortOnReject(file_paths, entries) ==
    IF file_paths = <<>> THEN <<>>
    ELSE LET p == Head(file_paths)
         IN  IF Verdict(entries[p]) = "ok"
             THEN <<p>> \o ValidFiles_AbortOnReject(Tail(file_paths), entries)
             ELSE <<>>

\* the validation loop of upload_videos over file_paths: the paths kept, in
\* input order
RECURSIVE ValidFiles(_, _)
ValidFiles(file_paths, entries) ==
    IF file_paths = <<>> THEN <<>>
    ELSE LET p == Head(file_paths)
             rest == ValidFiles(Tail(file_paths), entries)
         IN  IF Verdict(entries[p]) = "ok" THEN <<p>> \o rest ELSE rest

\* the rejections the validation loop prints, in input order
RECURSIVE Rejections(_, _)
Rejections(file_paths, entries) ==
    IF file_paths = <<>> THEN <<>>
    ELSE LET p == Head(file_paths)
             rest == Rejections(Tail(file_paths), entries)
         IN  IF Verdict(entries[p]) = "ok" THEN rest
             ELSE <<[path |-> p, reason |-> Verdict(entries[p])]>> \o rest

\* NormEndpoint that looks for the https:// prefix only
NormEndpoint_HttpsOnly(service_endpoint) ==
    LET endpoint == IF Truthy(service_endpoint) THEN service_endpoint ELSE <<>>
    IN  IF endpoint # <<>> /\ ~StartsWith(endpoint, Str_https)
        THEN Str_https \o endpoint
        ELSE endpoint

\* endpoint normalisation of create_transfer_spec
NormEndpoint(service_endpoint) ==
    LET endpoint == IF Truthy(service_endpoint) THEN service_endpoint ELSE <<>>
    IN  IF endpoint # <<>> /\ ~(StartsWith(endpoint, Str_http) \/ StartsWith(endpoint, Str_https))
        THEN Str_https \o endpoint
        ELSE endpoint

\* NormDestination without the strip()
NormDestination_NoStrip(destination) ==
    LET d0 == IF Truthy(destination) THEN destination ELSE Slash
        d1 == IF ~StartsWith(d0, Slash) THEN Slash \o d0 ELSE d0
    IN  IF ~EndsWith(d1, Slash) THEN d1 \o Slash ELSE d1

\* NormDestination that appends the final "/" without looking
NormDestination_AlwaysAppend(destination) ==
    LET d0 == Strip(IF Truthy(destination) THEN destination ELSE Slash)
        d1 == IF ~StartsWith(d0, Slash) THEN Slash \o d0 ELSE d0
    IN  d1 \o Slash

\* destination normalisation of create_transfer_spec
NormDestination(destination) ==
    LET d0 == Strip(IF Truthy(destination) THEN destination ELSE Slash)
        d1 == IF ~StartsWith(d0, Slash) THEN Slash \o d0 ELSE d0
    IN  IF ~EndsWith(d1, Slash) THEN d1 \o Slash ELSE d1

\* path_entries: one dict per path; a dict is the set of its keys' values
PathEntries_Reversed(file_paths) ==
    [i \in 1..Len(file_paths) |-> [source |-> file_paths[Len(file_paths) + 1 - i]]]

\* path_entries of create_transfer_spec: one entry per path, in order
PathEntries(file_paths) ==
    [i \in 1..Len(file_paths) |-> [source |-> file_paths[i]]]

\* create_transfer_spec(file_paths) for the uploader's fields
create_transfer_spec(cfg, file_paths) ==
    [ api_key |-> cfg.api_key,
      bucket |-> cfg.bucket,
      ibm_service_instance_id |-> cfg.service_instance_id,
      ibm_service_endpoint |-> NormEndpoint(cfg.service_endpoint),
      create_dir |-> cfg.create_dir,
      direction |-> "send",
      remote_host |-> cfg.remote_host,
      title |-> "video file upload",
      destination_root |-> NormDestination(cfg.destination),
      paths |-> PathEntries(file_paths) ]

\* required_vars with the endpoint row forgotten
required_vars_NoEndpoint(cfg) ==
    << <<"IBMCLOUD_API_KEY", cfg.api_key>>,
       <<"IBMCLOUD_BUCKET", cfg.bucket>>,
       <<"IBMCLOUD_COS_INSTANCE_ID", cfg.service_instance_id>> >>

\* required_vars of _validate_environment, in order
required_vars(cfg) ==
    << <<"IBMCLOUD_API_KEY", cfg.api_key>>,
       <<"IBMCLOUD_BUCKET", cfg.bucket>>,
       <<"IBMCLOUD_COS_INSTANCE_ID", cfg.service_instance_id>>,
       <<"IBMCLOUD_COS_ENDPOINT", cfg.service_endpoint>> >>

\* MissingOf that stops at the first missing name
MissingOf_FirstOnly(pairs) ==
    LET idx == {i \in DOMAIN pairs : ~Truthy(pairs[i][2])}
    IN  IF idx = {} THEN <<>>
        ELSE <<pairs[CHOOSE i \in idx : \A j \in idx : i <= j][1]>>

\* [name for name, val in pairs if not val]
RECURSIVE MissingOf(_)
MissingOf(pairs) ==
    IF pairs = <<>> THEN <<>>
    ELSE IF ~Truthy(Head(pairs)[2])
         THEN <<Head(pairs)[1]>> \o MissingOf(Tail(pairs))
         ELSE MissingOf(Tail(pairs))

\* the list `missing` of _validate_environment
Missing(cfg) == MissingOf(required_vars(cfg))

\* status codes of the SDK the script names, and one it does not
KnownStatus == {"QUEUED", "RUNNING", "COMPLETED", "FAILED", "PAUSED"}
StatusCodes == KnownStatus \cup {"CANCELED"}

\* get_status_text(status_code)
get_status_text(code) ==
    CASE code = "QUEUED" -> <<"Queued">>
      [] code = "RUNNING" -> <<"Running">>
      [] code = "COMPLETED" -> <<"Completed">>
      [] code = "FAILED" -> <<"Failed">>
      [] code = "PAUSED" -> <<"Paused">>
      [] OTHER -> <<"Unknown", code>>

\* IsTerminal with FAILED left out of the tuple
IsTerminal_OnlyCompleted(code) == code = "COMPLETED"

\* IsTerminal with every status outside Queued, Running and Paused taken
\* for the end of the transfer
IsTerminal_UnknownToo(code) == code \notin {"QUEUED", "RUNNING", "PAUSED"}

\* line 311: status_code in (COMPLETED, FAILED)
IsTerminal(code) == code \in {"COMPLETED", "FAILED"}

timeout_seconds == 300

\* line 308: elapsed = int(time.time() - start_time), in whole seconds
Elapsed(now, start) == (now - start) \div TicksPerSecond

\* WatchdogFires with >= for >
WatchdogFires_AtThreshold(el) == el >= timeout_seconds

\* line 319: elapsed > timeout_seconds
WatchdogFires(el) == el > timeout_seconds

---------------------------------------------------------------------------
(* State *)

VARIABLES
    pc,               \* where the run is
    cfg,              \* the VideoUploader's fields read from the environment
    client,           \* self.client: None or the gRPC stub
    dry_run,          \* args.dry_run
    fs,               \* what the positional argument names, as it is now
    videos,           \* main: the discovered paths
    abs_files,        \* upload_videos: the validated paths
    rejections,       \* upload_videos: the rejections printed
    transfer_spec,    \* upload_videos: the built spec, NoSpec before
    printed_spec,     \* the spec documents printed by the dry run, in order
    missing,          \* the list printed by _validate_environment
    rpcs,             \* the RPCs issued to the daemon, in order
    transfer_id,      \* response.transferId, None before
    filters,          \* registration_request.filters: a list of transferId lists
    stream,           \* the MonitorTransfers stream: "none" before the call, then
                      \* "open"; "stalled" (open, the daemon silent); "left" (the
                      \* loop broke out); "ended" (the daemon closed it); "failed"
    clock,            \* time.time(), in ticks
    start_time,       \* start_time, in ticks
    nsamples,         \* samples the for loop has received
    status_code,      \* status_code of the last sample, NoStatus before
    elapsed,          \* elapsed of the last sample, in whole seconds
    progress,         \* the status text of the last progress line, None before
    reports,          \* the messages printed, in order
    exit_code         \* the process's exit status

vars == <<pc, cfg, client, dry_run, fs, videos, abs_files, rejections,
          transfer_spec, printed_spec, missing, rpcs, transfer_id, filters,
          stream, clock, start_time, nsamples, status_code, elapsed, progress,
          reports, exit_code>>

discoveryVars == <<videos>>
uploadVars == <<abs_files, rejections, transfer_spec, printed_spec>>
sessionVars == <<client, missing, rpcs, transfer_id, filters>>
monitorVars == <<stream, start_time, nsamples, status_code, elapsed, progress>>

\* VideoUploader.__init__ for one environment
Configs ==
    [ api_key : FieldValues,
      bucket : FieldValues,
      service_instance_id : FieldValues,
      service_endpoint : EndpointValues,
      remote_host : {DefaultRemoteHost},
      destination : DestinationValues,
      create_dir : CreateDirValues ]

\* the instants at which the clock is read: start_time itself, and the ticks
\* from timeout_seconds to just past (timeout_seconds + 1) s after it
Threshold == timeout_seconds * TicksPerSecond
Instants ==
    {0} \cup (Threshold..(Threshold + TicksPerSecond + MaxSlack))

TransferIds == {<<"t", "1">>}

\* messages of a failing RPC
ErrorMessages == {"Destination path is not a directory", "other"}

\* transfer_spec before it is built
NoSpec == [none |-> TRUE]

\* status_code before the first sample
NoStatus == "none"

\* sys.exit(code)
Exit(code) ==
    /\ pc' = "done"
    /\ exit_code' = code

Say(msgs) == reports' = reports \o msgs

\* after main() has parsed its arguments and constructed the uploader
Init ==
    /\ pc = "main"
    /\ cfg \in Configs
    /\ client = None
    /\ dry_run \in BOOLEAN
    /\ fs \in FileSystems
    /\ videos = <<>>
    /\ abs_files = <<>>
    /\ rejections = <<>>
    /\ transfer_spec = NoSpec
    /\ printed_spec = <<>>
    /\ missing = <<>>
    /\ rpcs = <<>>
    /\ transfer_id = None
    /\ filters = <<>>
    /\ stream = "none"
    /\ clock = 0
    /\ start_time = 0
    /\ nsamples = 0
    /\ status_code = NoStatus
    /\ elapsed = 0
    /\ progress = None
    /\ reports = <<>>
    /\ exit_code = 0

---------------------------------------------------------------------------
(* Actions *)

\* Discover without the exit of lines 349-351: upload_videos is called with
\* whatever was found
Discover_NoExit ==
    /\ pc = "main"
    /\ videos' = find_video_files(fs)
    /\ pc' = "upload_videos"
    /\ UNCHANGED <<cfg, dry_run, fs, clock, reports, exit_code>>
    /\ UNCHANGED <<uploadVars, sessionVars, monitorVars>>

\* main, lines 347-351: discovery, and the exit when nothing was found
Discover ==
    /\ pc = "main"
    /\ videos' = find_video_files(fs)
    /\ IF videos' = <<>>
       THEN /\ Say(<<"No videos found">>)
            /\ Exit(1)
       ELSE /\ pc' = "upload_videos"
            /\ UNCHANGED <<reports, exit_code>>
    /\ UNCHANGED <<cfg, dry_run, fs, clock>>
    /\ UNCHANGED <<uploadVars, sessionVars, monitorVars>>

\* between discovery and validation another process removes a discovered
\* path (what = "missing") or puts a directory in its place (what = "dir");
\* one such change per run
FsChange(p, what) ==
    /\ pc = "upload_videos"
    /\ Contains(videos, p)
    /\ \A q \in DOMAIN fs.entries : fs.entries[q] \in ListedEntry
    /\ fs.entries[p].is_file
    /\ fs' = [fs EXCEPT !.entries[p] =
                IF what = "missing"
                THEN [@ EXCEPT !.exists = FALSE, !.is_file = FALSE, !.readable = FALSE]
                ELSE [@ EXCEPT !.is_file = FALSE, !.readable = TRUE]]
    /\ UNCHANGED <<pc, cfg, dry_run, clock, reports, exit_code>>
    /\ UNCHANGED <<discoveryVars, uploadVars, sessionVars, monitorVars>>

\* upload_videos, lines 227-260: the validation pass and its early returns
Validate ==
    /\ pc = "upload_videos"
    /\ IF videos = <<>>
       THEN /\ Say(<<"No video files found">>)
            /\ pc' = "returned"
            /\ UNCHANGED <<abs_files, rejections>>
       ELSE /\ abs_files' = ValidFiles(videos, fs.entries)
            /\ rejections' = Rejections(videos, fs.entries)
            /\ IF abs_files' = <<>>
               THEN /\ Say(<<"No valid, readable source files to upload">>)
                    /\ pc' = "returned"
               ELSE /\ Say(<<"Found videos to upload">>)
                    /\ pc' = "create_transfer_spec"
    /\ UNCHANGED <<cfg, dry_run, fs, clock, exit_code, transfer_spec, printed_spec>>
    /\ UNCHANGED <<discoveryVars, sessionVars, monitorVars>>

\* BuildSpec with the environment checked before the dry-run test
BuildSpec_EnvFirst ==
    /\ pc = "create_transfer_spec"
    /\ transfer_spec' = create_transfer_spec(cfg, abs_files)
    /\ IF Missing(cfg) # <<>>
       THEN /\ Say(<<"Missing environment variables">>)
            /\ Exit(1)
            /\ UNCHANGED printed_spec
       ELSE /\ UNCHANGED exit_code
            /\ IF dry_run
               THEN /\ Say(<<"--- DRY RUN ---">>)
                    /\ printed_spec' = Append(printed_spec, transfer_spec')
                    /\ pc' = "returned"
               ELSE /\ pc' = "connect"
                    /\ UNCHANGED <<reports, printed_spec>>
    /\ UNCHANGED <<cfg, dry_run, fs, clock, abs_files, rejections>>
    /\ UNCHANGED <<discoveryVars, sessionVars, monitorVars>>

\* upload_videos, lines 262-267: build the spec; a dry run prints it and returns
BuildSpec ==
    /\ pc = "create_transfer_spec"
    /\ transfer_spec' = create_transfer_spec(cfg, abs_files)
    /\ IF dry_run
       THEN /\ Say(<<"--- DRY RUN ---">>)
            /\ printed_spec' = Append(printed_spec, transfer_spec')
            /\ pc' = "returned"
       ELSE /\ pc' = "connect"
            /\ UNCHANGED <<reports, printed_spec>>
    /\ UNCHANGED <<cfg, dry_run, fs, clock, exit_code, abs_files, rejections>>
    /\ UNCHANGED <<discoveryVars, sessionVars, monitorVars>>

\* connect(), lines 202-212, called at line 272; ok is whether the stub
\* could be created
Connect(ok) ==
    /\ pc = "connect"
    /\ IF client # None
       THEN /\ pc' = "_validate_environment"
            /\ UNCHANGED <<client, reports, exit_code>>
       ELSE IF ok
            THEN /\ client' = <<"stub">>
                 /\ Say(<<"Connected to Transfer Manager">>)
                 /\ pc' = "_validate_environment"
                 /\ UNCHANGED exit_code
            ELSE /\ Say(<<"Could not connect">>)
                 /\ Exit(1)
                 /\ UNCHANGED client
    /\ UNCHANGED <<cfg, dry_run, fs, clock, missing, rpcs, transfer_id, filters>>
    /\ UNCHANGED <<discoveryVars, uploadVars, monitorVars>>

\* _validate_environment(), lines 109-121, called at line 275
ValidateEnvironment ==
    /\ pc = "_validate_environment"
    /\ IF Missing(cfg) # <<>>
       THEN /\ missing' = Missing(cfg)
            /\ Say(<<"Missing environment variables">>)
            /\ Exit(1)
       ELSE /\ Say(<<"Environment loaded successfully">>)
            /\ pc' = "StartTransfer"
            /\ UNCHANGED <<missing, exit_code>>
    /\ UNCHANGED <<cfg, dry_run, fs, clock, client, rpcs, transfer_id, filters>>
    /\ UNCHANGED <<discoveryVars, uploadVars, monitorVars>>

\* TransferError without the sys.exit(1): the error is printed and
\* upload_videos returns
TransferError_NoExit(before, msg) ==
    /\ Say(before \o (IF msg = "Destination path is not a directory"
                       THEN <<"Transfer error", "Hint">>
                       ELSE <<"Transfer error">>))
    /\ pc' = "returned"
    /\ UNCHANGED exit_code

\* the except clause of upload_videos, lines 324-331, for an exception of
\* message msg raised after the try block printed `before`
TransferError(before, msg) ==
    /\ Say(before \o (IF msg = "Destination path is not a directory"
                       THEN <<"Transfer error", "Hint">>
                       ELSE <<"Transfer error">>))
    /\ Exit(1)

\* StartTransferOk with the filter left empty: a subscription to every
\* transfer of the daemon
StartTransferOk_NoFilter(id) ==
    /\ pc = "StartTransfer"
    /\ rpcs' = Append(rpcs, "StartTransfer")
    /\ transfer_id' = id
    /\ filters' = <<>>
    /\ start_time' = clock
    /\ Say(<<"Starting transfer", "Transfer started">>)
    /\ pc' = "MonitorTransfers"
    /\ UNCHANGED <<cfg, dry_run, fs, clock, exit_code, client, missing>>
    /\ UNCHANGED <<stream, nsamples, status_code, elapsed, progress>>
    /\ UNCHANGED <<discoveryVars, uploadVars>>

\* lines 285-297: StartTransfer answers with a transfer id, and the
\* registration request for that id is built
StartTransferOk(id) ==
    /\ pc = "StartTransfer"
    /\ rpcs' = Append(rpcs, "StartTransfer")
    /\ transfer_id' = id
    /\ filters' = << <<id>> >>
    /\ start_time' = clock
    /\ Say(<<"Starting transfer", "Transfer started">>)
    /\ pc' = "MonitorTransfers"
    /\ UNCHANGED <<cfg, dry_run, fs, clock, exit_code, client, missing>>
    /\ UNCHANGED <<stream, nsamples, status_code, elapsed, progress>>
    /\ UNCHANGED <<discoveryVars, uploadVars>>

\* lines 285-286, 324-331: the daemon rejects StartTransfer
StartTransferRejected(msg) ==
    /\ pc = "StartTransfer"
    /\ rpcs' = Append(rpcs, "StartTransfer")
    /\ TransferError(<<"Starting transfer">>, msg)
    /\ UNCHANGED <<cfg, dry_run, fs, clock, client, missing, transfer_id, filters>>
    /\ UNCHANGED <<discoveryVars, uploadVars, monitorVars>>

\* line 299: the MonitorTransfers call that opens the stream
Subscribe ==
    /\ pc = "MonitorTransfers"
    /\ rpcs' = Append(rpcs, "MonitorTransfers")
    /\ stream' = "open"
    /\ pc' = "monitor"
    /\ UNCHANGED <<cfg, dry_run, fs, clock, reports, exit_code>>
    /\ UNCHANGED <<client, missing, transfer_id, filters>>
    /\ UNCHANGED <<start_time, nsamples, status_code, elapsed, progress>>
    /\ UNCHANGED <<discoveryVars, uploadVars>>

\* MonitorSample with the watchdog treated as a fatal error: sys.exit(1)
\* after the timeout message
MonitorSample_TimeoutExits(code) ==
    /\ pc = "monitor"
    /\ stream = "open"
    /\ nsamples < MaxSamples
    /\ nsamples' = nsamples + 1
    /\ status_code' = code
    /\ elapsed' = Elapsed(clock, start_time)
    /\ progress' = get_status_text(code)
    /\ IF IsTerminal(code)
       THEN /\ Say(IF code = "COMPLETED"
                   THEN <<"Transfer completed successfully!">>
                   ELSE <<"Transfer failed!">>)
            /\ stream' = "left"
            /\ pc' = "returned"
            /\ UNCHANGED exit_code
       ELSE IF WatchdogFires(elapsed')
            THEN /\ Say(<<"Timeout">>)
                 /\ stream' = "left"
                 /\ Exit(1)
            ELSE /\ UNCHANGED <<reports, stream, pc, exit_code>>
    /\ UNCHANGED <<cfg, dry_run, fs, clock, start_time>>
    /\ UNCHANGED <<discoveryVars, uploadVars, sessionVars>>

\* MonitorSample with the watchdog tested before the status
MonitorSample_WatchdogFirst(code) ==
    /\ pc = "monitor"
    /\ stream = "open"
    /\ nsamples < MaxSamples
    /\ nsamples' = nsamples + 1
    /\ status_code' = code
    /\ elapsed' = Elapsed(clock, start_time)
    /\ progress' = get_status_text(code)
    /\ IF WatchdogFires(elapsed')
       THEN /\ Say(<<"Timeout">>)
            /\ stream' = "left"
            /\ pc' = "returned"
       ELSE IF IsTerminal(code)
            THEN /\ Say(IF code = "COMPLETED"
                        THEN <<"Transfer completed successfully!">>
                        ELSE <<"Transfer failed!">>)
                 /\ stream' = "left"
                 /\ pc' = "returned"
            ELSE /\ UNCHANGED <<reports, stream, pc>>
    /\ UNCHANGED <<cfg, dry_run, fs, clock, exit_code, start_time>>
    /\ UNCHANGED <<discoveryVars, uploadVars, sessionVars>>

\* MonitorSample with a Failed sample ending the process by sys.exit(1)
MonitorSample_FailedExits(code) ==
    /\ pc = "monitor"
    /\ stream = "open"
    /\ nsamples < MaxSamples
    /\ nsamples' = nsamples + 1
    /\ status_code' = code
    /\ elapsed' = Elapsed(clock, start_time)
    /\ progress' = get_status_text(code)
    /\ IF IsTerminal(code)
       THEN /\ stream' = "left"
            /\ IF code = "COMPLETED"
               THEN /\ Say(<<"Transfer completed successfully!">>)
                    /\ pc' = "returned"
                    /\ UNCHANGED exit_code
               ELSE /\ Say(<<"Transfer failed!">>)
                    /\ Exit(1)
       ELSE IF WatchdogFires(elapsed')
            THEN /\ Say(<<"Timeout">>)
                 /\ stream' = "left"
                 /\ pc' = "returned"
                 /\ UNCHANGED exit_code
            ELSE /\ UNCHANGED <<reports, stream, pc, exit_code>>
    /\ UNCHANGED <<cfg, dry_run, fs, clock, start_time>>
    /\ UNCHANGED <<discoveryVars, uploadVars, sessionVars>>

\* lines 299-322: one iteration of the for loop, for a sample of status code
MonitorSample(code) ==
    /\ pc = "monitor"
    /\ stream = "open"
    /\ nsamples < MaxSamples
    /\ nsamples' = nsamples + 1
    /\ status_code' = code
    /\ elapsed' = Elapsed(clock, start_time)
    /\ progress' = get_status_text(code)
    /\ IF IsTerminal(code)
       THEN /\ Say(IF code = "COMPLETED"
                   THEN <<"Transfer completed successfully!">>
                   ELSE <<"Transfer failed!">>)
            /\ stream' = "left"
            /\ pc' = "returned"
       ELSE IF WatchdogFires(elapsed')
            THEN /\ Say(<<"Timeout">>)
                 /\ stream' = "left"
                 /\ pc' = "returned"
            ELSE /\ UNCHANGED <<reports, stream, pc>>
    /\ UNCHANGED <<cfg, dry_run, fs, clock, exit_code, start_time>>
    /\ UNCHANGED <<discoveryVars, uploadVars, sessionVars>>

\* lines 299, 324-331: the stream raises while the loop waits for a sample
StreamError(msg) ==
    /\ pc = "monitor"
    /\ stream = "open"
    /\ stream' = "failed"
    /\ TransferError(<<>>, msg)
    /\ UNCHANGED <<cfg, dry_run, fs, clock>>
    /\ UNCHANGED <<start_time, nsamples, status_code, elapsed, progress>>
    /\ UNCHANGED <<discoveryVars, uploadVars, sessionVars>>

\* line 299: the daemon ends the stream, and the for loop ends with it
StreamEnd ==
    /\ pc = "monitor"
    /\ stream = "open"
    /\ stream' = "ended"
    /\ pc' = "returned"
    /\ UNCHANGED <<cfg, dry_run, fs, clock, reports, exit_code>>
    /\ UNCHANGED <<start_time, nsamples, status_code, elapsed, progress>>
    /\ UNCHANGED <<discoveryVars, uploadVars, sessionVars>>

\* the daemon stops emitting samples and keeps the stream open
DaemonStalls ==
    /\ pc = "monitor"
    /\ stream = "open"
    /\ stream' = "stalled"
    /\ UNCHANGED <<pc, cfg, dry_run, fs, clock, reports, exit_code>>
    /\ UNCHANGED <<start_time, nsamples, status_code, elapsed, progress>>
    /\ UNCHANGED <<discoveryVars, uploadVars, sessionVars>>

\* Blocked with a wall-clock deadline: the wait for the next sample is
\* abandoned with the timeout message once the watchdog threshold has passed
Blocked_WithDeadline(t) ==
    /\ pc = "monitor"
    /\ t > clock
    /\ clock' = t
    /\ IF WatchdogFires(Elapsed(t, start_time))
       THEN /\ Say(<<"Timeout">>)
            /\ stream' = "left"
            /\ pc' = "returned"
       ELSE UNCHANGED <<reports, stream, pc>>
    /\ UNCHANGED <<cfg, dry_run, fs, exit_code>>
    /\ UNCHANGED <<start_time, nsamples, status_code, elapsed, progress>>
    /\ UNCHANGED <<discoveryVars, uploadVars, sessionVars>>

\* line 299: the loop is blocked in the stream's next() while time passes
\* to instant t; nothing but the clock changes
Blocked(t) ==
    /\ pc = "monitor"
    /\ t > clock
    /\ clock' = t
    /\ UNCHANGED <<pc, cfg, dry_run, fs, reports, exit_code>>
    /\ UNCHANGED <<discoveryVars, uploadVars, sessionVars, monitorVars>>

\* main, lines 353-356: upload_videos has returned
Return ==
    /\ pc = "returned"
    /\ IF dry_run THEN Say(<<"Dry run complete">>) ELSE UNCHANGED reports
    /\ pc' = "done"
    /\ UNCHANGED <<cfg, dry_run, fs, clock, exit_code>>
    /\ UNCHANGED <<discoveryVars, uploadVars, sessionVars, monitorVars>>

Next ==
    \/ Discover
    \/ \E p \in 1..MaxFiles, what \in {"missing", "dir"} : FsChange(p, what)
    \/ Validate
    \/ BuildSpec
    \/ \E ok \in BOOLEAN : Connect(ok)
    \/ ValidateEnvironment
    \/ \E id \in TransferIds : StartTransferOk(id)
    \/ \E msg \in ErrorMessages : StartTransferRejected(msg)
    \/ Subscribe
    \/ \E code \in StatusCodes : MonitorSample(code)
    \/ \E msg \in ErrorMessages : StreamError(msg)
    \/ StreamEnd
    \/ DaemonStalls
    \/ \E t \in Instants : Blocked(t)
    \/ Return

Spec == Init /\ [][Next]_vars

---------------------------------------------------------------------------
(* Vocabulary of the properties *)

Last(seq) == seq[Len(seq)]
Count(seq, x) == Cardinality({i \in DOMAIN seq : seq[i] = x})
Said(msg) == Contains(reports, msg)

\* the loop has processed a sample of a terminal status
GotTerminal == status_code \in {"COMPLETED", "FAILED"}

---------------------------------------------------------------------------
(* C1 *)

\* C1: the monitoring loop stops at the first sample whose status is
\* Completed or Failed and reports the outcome of that sample (success for
\* Completed, failure for Failed); once such a sample has been processed
\* the loop is left and no further sample is ever processed.
C1_StateAtTerminal ==
    GotTerminal =>
        /\ pc \in {"returned", "done"}
        /\ stream = "left"
        /\ exit_code = 0
        /\ Last(reports) = (IF status_code = "COMPLETED"
                            THEN "Transfer completed successfully!"
                            ELSE "Transfer failed!")
        /\ Count(reports, "Transfer completed successfully!")
             = (IF status_code = "COMPLETED" THEN 1 ELSE 0)
        /\ Count(reports, "Transfer failed!")
             = (IF status_code = "FAILED" THEN 1 ELSE 0)
        /\ ~Said("Timeout")

C1_NoSampleAfterTerminal ==
    GotTerminal =>
        /\ nsamples' = nsamples
        /\ status_code' = status_code
        /\ reports' = reports

\* C1, both parts: the state at a terminal sample, and no sample after it
C1_TerminalStops == []C1_StateAtTerminal /\ [][C1_NoSampleAfterTerminal]_vars

\* a Failed sample was processed as the second sample of the stream
C1_Witness ==
    /\ status_code = "FAILED"
    /\ nsamples = 2
    /\ pc = "done"

---------------------------------------------------------------------------
(* C2 *)

\* this step is an iteration of the loop for a sample of a non-terminal status
NonTerminalSampleStep ==
    /\ nsamples' = nsamples + 1
    /\ status_code' \notin {"COMPLETED", "FAILED"}

\* this step prints the timeout message
TimeoutStep == Count(reports', "Timeout") = Count(reports, "Timeout") + 1

\* the time since start_time, in ticks, at this step
TicksSinceStart == clock - start_time

\* C2 as stated: a non-terminal sample received when more than 300 seconds
\* have elapsed since the start of monitoring makes the monitor stop and
\* report a soft timeout, and no soft timeout is reported at a sample
\* received at 300 seconds or less.
C2_AsStatedStep ==
    /\ (NonTerminalSampleStep /\ TicksSinceStart > timeout_seconds * TicksPerSecond)
          => (TimeoutStep /\ pc' = "returned" /\ stream' = "left")
    /\ (TimeoutStep /\ TicksSinceStart <= timeout_seconds * TicksPerSecond)
          => FALSE

\* C2 as stated, of every step
C2_AsStated == [][C2_AsStatedStep]_vars

\* C2, amended: a non-terminal sample makes the monitor stop and report a
\* soft timeout exactly when the elapsed time in whole seconds (truncated)
\* exceeds 300, that is when at least 301 seconds have elapsed since the
\* start of monitoring; a soft timeout is reported at no other step, and
\* after it no further sample is processed.
C2_AmendedStep ==
    /\ NonTerminalSampleStep =>
          (TimeoutStep <=> TicksSinceStart >= (timeout_seconds + 1) * TicksPerSecond)
    /\ TimeoutStep =>
          /\ NonTerminalSampleStep
          /\ pc' = "returned"
          /\ stream' = "left"
          /\ Last(reports') = "Timeout"
    /\ Said("Timeout") => (nsamples' = nsamples /\ reports' = reports)

\* C2, amended, of every step
C2_WatchdogAtWholeSeconds == [][C2_AmendedStep]_vars

\* a soft timeout was reported at a sample received 301 s after the start
C2_Witness ==
    /\ Said("Timeout")
    /\ elapsed = timeout_seconds + 1
    /\ pc = "done"

---------------------------------------------------------------------------
(* C3 *)

\* an identity field that is neither unset nor empty
FieldSet(v) == v # None /\ v # <<>>

AllIdentitySet ==
    /\ FieldSet(cfg.api_key)
    /\ FieldSet(cfg.bucket)
    /\ FieldSet(cfg.service_instance_id)
    /\ FieldSet(cfg.service_endpoint)

\* the configuration check of this run has been performed
EnvironmentChecked == client # None /\ pc \notin {"connect", "_validate_environment"}

\* C3: StartTransfer is invoked (and about to be invoked) only when all
\* four identity fields are non-empty; a run with one of them empty or
\* unset that comes to the configuration check ends there with the
\* configuration error, exit code 1, and no RPC issued.
C3_SubmitOnlyConfigured ==
    /\ (pc = "StartTransfer" \/ rpcs # <<>>) => (AllIdentitySet /\ ~dry_run)
    /\ (EnvironmentChecked /\ ~AllIdentitySet) =>
          /\ pc = "done"
          /\ exit_code = 1
          /\ Last(reports) = "Missing environment variables"
          /\ rpcs = <<>>
          /\ transfer_id = None

\* only the service endpoint is empty, and the run ended at the check
C3_Witness ==
    /\ pc = "done"
    /\ EnvironmentChecked
    /\ FieldSet(cfg.api_key) /\ FieldSet(cfg.bucket) /\ FieldSet(cfg.service_instance_id)
    /\ cfg.service_endpoint = <<>>
    /\ Said("Missing environment variables")

---------------------------------------------------------------------------
(* C4 *)

\* C4: a dry run never connects, never checks the configuration and issues
\* no RPC; over a non-empty set of valid files it prints the transfer spec
\* built from the configuration as it is, complete or not, and ends with
\* exit code 0.
C4_DryRunSucceeds ==
    dry_run =>
        /\ client = None
        /\ rpcs = <<>>
        /\ stream = "none"
        /\ missing = <<>>
        /\ ~Said("Connected to Transfer Manager") /\ ~Said("Could not connect")
        /\ ~Said("Missing environment variables")
        /\ ~Said("Environment loaded successfully")
        /\ abs_files # <<>> => exit_code = 0
        /\ (pc = "done" /\ abs_files # <<>>) =>
              /\ Len(printed_spec) = 1
              /\ printed_spec[1].api_key = cfg.api_key
              /\ printed_spec[1].bucket = cfg.bucket
              /\ printed_spec[1].ibm_service_instance_id = cfg.service_instance_id
              /\ Len(printed_spec[1].paths) = Len(abs_files)
              /\ Last(reports) = "Dry run complete"

\* a dry run with all four identity fields unset or empty has ended
C4_Witness ==
    /\ dry_run
    /\ pc = "done"
    /\ Len(printed_spec) = 1
    /\ cfg.api_key = None /\ cfg.bucket = <<>>
    /\ cfg.service_instance_id = None /\ cfg.service_endpoint = <<>>

---------------------------------------------------------------------------
(* C5 *)

\* C5: when discovery returned at least one path and the validation pass
\* rejected every one, the run ends with a non-zero exit code, with no spec
\* built, no connection and no RPC.
C5_EmptyBatchIsFatal ==
    (pc = "done" /\ videos # <<>> /\ abs_files = <<>>) =>
        /\ exit_code # 0
        /\ transfer_spec = NoSpec
        /\ client = None
        /\ rpcs = <<>>

---------------------------------------------------------------------------
(* C6 *)

---------------------------------------------------------------------------
(* C7 *)

\* C7: once the daemon has stopped emitting samples on the open stream, no
\* step takes the monitor out of its wait: it stays in the loop, prints
\* nothing (no timeout in particular) and does not exit, whatever time
\* passes.
C7_StalledStep ==
    stream = "stalled" =>
        /\ pc = "monitor"
        /\ pc' = "monitor"
        /\ stream' = "stalled"
        /\ reports' = reports
        /\ exit_code' = exit_code
        /\ nsamples' = nsamples

\* C7, of every step
C7_StalledStreamBlocks == [][C7_StalledStep]_vars

\* the stream stalled before any sample, 301 s or more have passed and
\* the monitor is still waiting without a timeout
C7_Witness ==
    /\ stream = "stalled"
    /\ nsamples = 0
    /\ clock - start_time >= (timeout_seconds + 1) * TicksPerSecond
    /\ pc = "monitor"
    /\ ~Said("Timeout")

---------------------------------------------------------------------------
(* C8 *)

\* C8: a run whose monitoring ended by soft timeout has exit code 0, has
\* reported no error, and has issued no RPC other than the one
\* StartTransfer and the one MonitorTransfers that preceded the timeout.
C8_SoftTimeoutIsSuccess ==
    Said("Timeout") =>
        /\ pc \in {"returned", "done"}
        /\ exit_code = 0
        /\ ~Said("Transfer error")
        /\ ~Said("Transfer failed!")
        /\ rpcs = <<"StartTransfer", "MonitorTransfers">>
        /\ stream = "left"

\* a run that ended by soft timeout has terminated
C8_Witness ==
    /\ Said("Timeout")
    /\ pc = "done"
    /\ ~GotTerminal

---------------------------------------------------------------------------
(* C9 *)

\* C9: when discovery yields an empty sequence, as it does for a path that
\* does not exist, main ends the run with "No videos found" and exit code
\* 1, and nothing of upload_videos takes place: no validation, no spec, no
\* connection, no RPC.
C9_EmptyDiscoveryExits ==
    /\ (pc # "main" /\ fs.kind = "missing") => videos = <<>>
    /\ (pc # "main" /\ videos = <<>>) =>
          /\ pc = "done"
          /\ exit_code = 1
          /\ reports = <<"No videos found">>
          /\ abs_files = <<>> /\ rejections = <<>>
          /\ transfer_spec = NoSpec /\ printed_spec = <<>>
          /\ client = None
          /\ rpcs = <<>>

\* the run over a directory that holds only a file that is no video ended
C9_Witness ==
    /\ pc = "done"
    /\ fs.kind = "dir"
    /\ Len(fs.entries) = 1
    /\ fs.entries[1].suffix = ".txt"
    /\ videos = <<>>

---------------------------------------------------------------------------
(* C10 *)

IdentityNames ==
    <<"IBMCLOUD_API_KEY", "IBMCLOUD_BUCKET", "IBMCLOUD_COS_INSTANCE_ID",
      "IBMCLOUD_COS_ENDPOINT">>

IdentityValue(name) ==
    CASE name = "IBMCLOUD_API_KEY" -> cfg.api_key
      [] name = "IBMCLOUD_BUCKET" -> cfg.bucket
      [] name = "IBMCLOUD_COS_INSTANCE_ID" -> cfg.service_instance_id
      [] name = "IBMCLOUD_COS_ENDPOINT" -> cfg.service_endpoint

\* the names of the identity fields that are empty or unset
UnsetNames == {IdentityNames[i] : i \in {j \in 1..4 : ~FieldSet(IdentityValue(IdentityNames[j]))}}

\* C10: once the configuration check has run, it has failed (exit code 1,
\* the list of missing names printed) if and only if some identity field
\* is empty or unset, and the list printed names every such field once and
\* no other.
C10_ReportsEveryMissingField ==
    EnvironmentChecked =>
        /\ {missing[i] : i \in DOMAIN missing} = UnsetNames
        /\ Len(missing) = Cardinality(UnsetNames)
        /\ Said("Missing environment variables") <=> UnsetNames # {}
        /\ Said("Environment loaded successfully") <=> UnsetNames = {}
        /\ UnsetNames # {} => (pc = "done" /\ exit_code = 1)

\* the check has run with all four identity fields empty or unset
C10_Witness ==
    /\ EnvironmentChecked
    /\ Cardinality(UnsetNames) = 4
    /\ Len(missing) = 4

---------------------------------------------------------------------------
(* C11 *)

\* the lower-case form of a suffix of the model
LowerSuffix(sfx) ==
    CASE sfx = ".MOV" -> ".mov"
      [] sfx = ".MP4" -> ".mp4"
      [] sfx = ".Mp4" -> ".mp4"
      [] OTHER -> sfx

\* a suffix of the set {.mp4, .mov}, whatever the case of its letters
IsVideoSuffix(sfx) == LowerSuffix(sfx) \in {".mp4", ".mov"}

\* the paths below f that are regular files with a video suffix, in order
ExpectedVideos(f) ==
    IF f.kind = "file"
    THEN IF IsVideoSuffix(f.entries[1].suffix) THEN <<1>> ELSE <<>>
    ELSE SelectSeq([i \in 1..Len(f.entries) |-> i],
                   LAMBDA i : f.entries[i].is_file /\ IsVideoSuffix(f.entries[i].suffix))

\* C11: discovery returns exactly the regular files whose suffix is .mp4
\* or .mov in any mix of upper and lower case, each once; a single file
\* given directly is returned iff its suffix matches.
C11_DiscoveryStep == pc = "main" => videos' = ExpectedVideos(fs)

\* C11, of every step
C11_CaseInsensitiveDiscovery == [][C11_DiscoveryStep]_vars

---------------------------------------------------------------------------
(* The spec builder over many destinations and endpoints *)

\* longest COS_DESTINATION tried, in characters
MaxDestLen == 3
\* longest host part of IBMCLOUD_COS_ENDPOINT tried, after its prefix
MaxTailLen == 1

\* COS_DESTINATION when the variable is unset: the default of line 107
DefaultDestination ==
    <<"/", "a", "s", "p", "e", "r", "a", "-", "u", "p", "l", "o", "a", "d", "s">>

\* COS_DESTINATION: every string of blanks, slashes and the letter a up to
\* MaxDestLen characters, and the default
RichDestinations == SeqsUpTo({" ", "/", "a"}, MaxDestLen) \cup {DefaultDestination}

\* IBMCLOUD_COS_ENDPOINT: unset, or a prefix (none, a scheme, a truncated
\* scheme, an upper-case scheme) followed by a short host part
EndpointPrefixes ==
    { <<>>, Str_http, Str_https,
      <<"h", "t", "t", "p", ":", "/">>,
      <<"h", "t", "t", "p", "s">>,
      <<"H", "T", "T", "P", ":", "/", "/">> }

RichEndpoints ==
    {None} \cup {pre \o tail : pre \in EndpointPrefixes,
                               tail \in SeqsUpTo({"x", "/"}, MaxTailLen)}

\* the environments of the builder runs: the identity complete, and either
\* the destination or the endpoint varied
BuildConfigs ==
    {c \in [ api_key : {<<"k">>},
             bucket : {<<"k">>},
             service_instance_id : {<<"k">>},
             service_endpoint : RichEndpoints \cup {<<"s", "3">>},
             remote_host : {DefaultRemoteHost},
             destination : RichDestinations \cup {<<"u">>},
             create_dir : BOOLEAN ] :
        \/ c.service_endpoint = <<"s", "3">> /\ c.create_dir
        \/ c.destination = <<"u">>}

\* main() over a directory of two readable videos, for each such environment
InitBuild ==
    /\ pc = "main"
    /\ cfg \in BuildConfigs
    /\ client = None
    /\ dry_run \in BOOLEAN
    /\ fs = [kind |-> "dir", entries |-> <<File(".mp4", TRUE), File(".MOV", TRUE)>>]
    /\ videos = <<>>
    /\ abs_files = <<>>
    /\ rejections = <<>>
    /\ transfer_spec = NoSpec
    /\ printed_spec = <<>>
    /\ missing = <<>>
    /\ rpcs = <<>>
    /\ transfer_id = None
    /\ filters = <<>>
    /\ stream = "none"
    /\ clock = 0
    /\ start_time = 0
    /\ nsamples = 0
    /\ status_code = NoStatus
    /\ elapsed = 0
    /\ progress = None
    /\ reports = <<>>
    /\ exit_code = 0

SpecBuild == InitBuild /\ [][Next]_vars

Built == transfer_spec # NoSpec

---------------------------------------------------------------------------
(* C12 *)

\* s without its leading and trailing blanks
Trimmed(s) ==
    LET idx == {i \in DOMAIN s : s[i] # " "}
    IN  IF idx = {} THEN <<>>
        ELSE SubSeq(s, CHOOSE i \in idx : \A j \in idx : i <= j,
                       CHOOSE i \in idx : \A j \in idx : i >= j)

\* the trimmed destination with "/" put in front unless it starts with one,
\* then "/" put behind unless it ends with one
SlashWrapped(s) ==
    LET t == Trimmed(s)
        a == IF t # <<>> /\ t[1] = "/" THEN t ELSE <<"/">> \o t
    IN  IF a[Len(a)] = "/" THEN a ELSE a \o <<"/">>

\* C12: the destination_root of the built spec is the trimmed destination
\* wrapped in slashes; it begins and ends with "/", and is "/" alone for a
\* destination that is empty, blank or "/".
C12_DestinationRoot ==
    Built =>
        LET root == transfer_spec.destination_root
        IN  /\ root = SlashWrapped(cfg.destination)
            /\ root[1] = "/" /\ root[Len(root)] = "/"
            /\ Trimmed(cfg.destination) \in {<<>>, <<"/">>} => root = <<"/">>
            /\ cfg.destination = <<"a">> => root = <<"/", "a", "/">>
            /\ cfg.destination = <<"/", "a">> => root = <<"/", "a", "/">>

\* a spec was built for a destination with a blank before and after it
C12_Witness ==
    /\ Built
    /\ cfg.destination = <<" ", "a", " ">>
    /\ transfer_spec.destination_root = <<"/", "a", "/">>

---------------------------------------------------------------------------
(* C13 *)

\* C13: the ibm_service_endpoint of the built spec is the configured
\* endpoint unchanged when that is empty (unset counts as empty) or starts
\* with http:// or https://, and is https:// followed by it otherwise.
C13_EndpointScheme ==
    Built =>
        LET given == cfg.service_endpoint
            out == transfer_spec.ibm_service_endpoint
        IN  IF given = None \/ given = <<>> THEN out = <<>>
            ELSE IF StartsWith(given, <<"h", "t", "t", "p", ":", "/", "/">>)
                    \/ StartsWith(given, <<"h", "t", "t", "p", "s", ":", "/", "/">>)
                 THEN out = given
                 ELSE out = <<"h", "t", "t", "p", "s", ":", "/", "/">> \o given

\* a spec was built for an endpoint that starts with http://
C13_Witness ==
    /\ Built
    /\ cfg.service_endpoint = <<"h", "t", "t", "p", ":", "/", "/", "x">>
    /\ transfer_spec.ibm_service_endpoint = cfg.service_endpoint

---------------------------------------------------------------------------
(* C14 *)

\* a destination in normalised form: it begins and ends with "/"
IsNormalDestination(d) == d # None /\ d # <<>> /\ d[1] = "/" /\ d[Len(d)] = "/"

\* an endpoint in normalised form: empty, or with its scheme
IsNormalEndpoint(e) ==
    e # None /\ (e = <<>> \/ StartsWith(e, Str_http) \/ StartsWith(e, Str_https))

\* C14: normalising the endpoint and the destination root of a built spec
\* again changes neither, and a destination or endpoint that is configured
\* in normalised form comes out as it went in.
C14_NormalizationIdempotent ==
    Built =>
        /\ NormEndpoint(transfer_spec.ibm_service_endpoint)
             = transfer_spec.ibm_service_endpoint
        /\ NormDestination(transfer_spec.destination_root)
             = transfer_spec.destination_root
        /\ IsNormalDestination(cfg.destination)
             => transfer_spec.destination_root = cfg.destination
        /\ IsNormalEndpoint(cfg.service_endpoint)
             => transfer_spec.ibm_service_endpoint = cfg.service_endpoint

\* a spec was built for the destination /a/, which is normalised already
C14_Witness ==
    /\ Built
    /\ cfg.destination = <<"/", "a", "/">>
    /\ transfer_spec.destination_root = <<"/", "a", "/">>

---------------------------------------------------------------------------
(* C15 *)

---------------------------------------------------------------------------
(* C16 *)

\* the path passes the three checks of the validation pass
PassesChecks(p) ==
    fs.entries[p].exists /\ fs.entries[p].is_file /\ fs.entries[p].readable

\* the first check a rejected path fails
FirstFailure(p) ==
    IF ~fs.entries[p].exists THEN "Source not found"
    ELSE IF ~fs.entries[p].is_file THEN "Not a file"
    ELSE "Not readable"

\* C16: the validation pass keeps exactly the discovered paths that exist,
\* are regular files and are readable, in order; it rejects every other
\* path with the reason of the first failing check; no path is both kept
\* and rejected; and it goes on to build the spec whenever a path is kept.
C16_ValidationStep ==
    pc = "upload_videos" /\ pc' # "upload_videos" /\ videos # <<>> =>
        LET bad == SelectSeq(videos, LAMBDA p : ~PassesChecks(p))
        IN  /\ abs_files' = SelectSeq(videos, PassesChecks)
            /\ rejections' = [i \in 1..Len(bad) |->
                                [path |-> bad[i], reason |-> FirstFailure(bad[i])]]
            /\ \A i \in DOMAIN abs_files', j \in DOMAIN rejections' :
                 abs_files'[i] # rejections'[j].path
            /\ Len(abs_files') + Len(rejections') = Len(videos)
            /\ abs_files' # <<>> => pc' = "create_transfer_spec"

\* C16, of every step
C16_RejectionsDoNotAbort == [][C16_ValidationStep]_vars

\* the first of two videos was rejected as missing and the second one kept
C16_Witness ==
    /\ pc = "create_transfer_spec"
    /\ videos = <<1, 2>>
    /\ rejections = <<[path |-> 1, reason |-> "Source not found"]>>
    /\ abs_files = <<2>>

---------------------------------------------------------------------------
(* C17 *)

\* C17: the stages happen in the order discovery, validation, spec
\* building, submission, monitoring; MonitorTransfers is called once, after
\* StartTransfer has returned a transfer id, and its filter holds one
\* entry with exactly that id.
C17_StagesInOrder ==
    /\ abs_files # <<>> => videos # <<>>
    /\ Built => abs_files # <<>>
    /\ rpcs # <<>> => Built /\ rpcs[1] = "StartTransfer"
    /\ transfer_id # None => rpcs # <<>>
    /\ Contains(rpcs, "MonitorTransfers") =>
         /\ rpcs = <<"StartTransfer", "MonitorTransfers">>
         /\ transfer_id \in TransferIds
         /\ filters = << <<transfer_id>> >>
    /\ stream # "none" <=> Contains(rpcs, "MonitorTransfers")

\* the subscription is open for the transfer that was started
C17_Witness ==
    /\ rpcs = <<"StartTransfer", "MonitorTransfers">>
    /\ stream = "open"
    /\ transfer_id = <<"t", "1">>
    /\ filters = << <<transfer_id>> >>

---------------------------------------------------------------------------
(* C18 *)

\* the progress text of a status that does not end the transfer
ProgressText(code) ==
    IF code = "QUEUED" THEN <<"Queued">>
    ELSE IF code = "RUNNING" THEN <<"Running">>
    ELSE IF code = "PAUSED" THEN <<"Paused">>
    ELSE <<"Unknown", code>>

\* C18: an iteration of the loop for a sample whose status is Queued,
\* Running, Paused or a code outside the known set, at an elapsed time of
\* at most 300 seconds, reports no outcome, shows the status (Unknown(code)
\* for an unknown code) and stays in the loop with the stream open.
C18_NonTerminalStep ==
    (/\ nsamples' = nsamples + 1
     /\ status_code' \notin {"COMPLETED", "FAILED"}
     /\ elapsed' <= timeout_seconds)
    => /\ reports' = reports
       /\ progress' = ProgressText(status_code')
       /\ pc' = "monitor"
       /\ stream' = "open"
       /\ exit_code' = exit_code

\* C18, of every step
C18_NonTerminalContinues == [][C18_NonTerminalStep]_vars

\* a sample of an unknown status was processed at exactly 300 seconds, and
\* the loop waits for the next sample
C18_Witness ==
    /\ status_code = "CANCELED"
    /\ progress = <<"Unknown", "CANCELED">>
    /\ elapsed = timeout_seconds
    /\ pc = "monitor"
    /\ stream = "open"

---------------------------------------------------------------------------
(* C19 *)

\* the report of a terminal status
OutcomeOf(code) ==
    IF code = "COMPLETED" THEN "Transfer completed successfully!" ELSE "Transfer failed!"

C19_LateTerminalStep ==
    (/\ nsamples' = nsamples + 1
     /\ status_code' \in {"COMPLETED", "FAILED"}
     /\ elapsed' > timeout_seconds)
    => /\ reports' = Append(reports, OutcomeOf(status_code'))
       /\ pc' = "returned"

C19_NeverBoth ==
    ~(/\ Said("Timeout")
      /\ Said("Transfer completed successfully!") \/ Said("Transfer failed!"))

\* C19: a Completed or Failed sample received after more than 300 seconds
\* is reported as completed or failed and not as a timeout, and no run
\* reports both a terminal outcome and a timeout.
C19_TerminalBeatsWatchdog == []C19_NeverBoth /\ [][C19_LateTerminalStep]_vars

\* a Completed sample was processed after more than 300 seconds
C19_Witness ==
    /\ status_code = "COMPLETED"
    /\ elapsed > timeout_seconds
    /\ Last(reports) = "Transfer completed successfully!"
    /\ ~Said("Timeout")

---------------------------------------------------------------------------
(* C20 *)

\* C20: a run whose monitoring ended on a Failed sample has exit code 0, as
\* has one that ended on a Completed sample; after StartTransfer was called
\* the exit code is non-zero only when StartTransfer or the stream raised,
\* and then it is 1 with the error reported.
C20_FailedExitsZero ==
    /\ status_code \in {"COMPLETED", "FAILED"} =>
         /\ exit_code = 0
         /\ pc \in {"returned", "done"}
         /\ ~Said("Transfer error")
    /\ (rpcs # <<>> /\ exit_code # 0) =>
         /\ exit_code = 1
         /\ Said("Transfer error")
         /\ (transfer_id = None /\ rpcs = <<"StartTransfer">>) \/ stream = "failed"
    /\ (rpcs # <<>> /\ pc = "done" /\ exit_code = 0) =>
         transfer_id # None /\ stream # "failed"

\* a run that ended on a Failed sample has terminated with exit code 0
C20_Witness ==
    /\ status_code = "FAILED"
    /\ Said("Transfer failed!")
    /\ pc = "done"
    /\ exit_code = 0

====
